---- MODULE Spec2Model ----
(***************************************************************************)
(* Aadhaar Sanket: ingestion ledger, snapshot conversion, the pipeline     *)
(* orchestrator (run_full_pipeline), the metadata tracker singleton and    *)
(* the HTTP/background triggers that start pipeline runs.                  *)
(*                                                                         *)
(* Data abstraction.  A raw CSV is identified by its content hash; every   *)
(* content stands for one row of one geographic key.  The attributes of a  *)
(* content (kind, readable by pl.read_csv, carries state/district columns) *)
(* are fixed by the content.  The demo directory data/demo is absent, so   *)
(* the initialize_demo branches of the code do nothing.                    *)
(*                                                                         *)
(* Scheduling.  Handlers are served as overlapping invocations; a handler  *)
(* segment without an await or a thread switch is one atomic step.  A run  *)
(* of run_full_pipeline advances one stage per step.  Background tasks run *)
(* in the thread pool; trigger_pipeline and pipeline_watcher call          *)
(* run_full_pipeline on the event loop, and the model admits their overlap *)
(* too: a superset of the schedules of a single loop.                      *)
(*                                                                         *)
(* Scenarios.  quota holds what the environment may still do in a          *)
(* behaviour (uploads, resets, runs, runs in progress, switches between    *)
(* runs in progress); each specification starts from its own quota.        *)
(***************************************************************************)
EXTENDS Integers, Sequences, FiniteSets, Bags, TLC

VARIABLES
    files,              \* CSV files under data/manual and data/uploads
    archives,           \* archive files under data/uploads
    processed_hashes,   \* IngestionTracker.processed_hashes (in memory)
    tracker_file,       \* data/.processed_hashes.json
    snapshot,           \* <kind>_clean.parquet: bag of the contents it holds
    derived,            \* derived parquet tables of the processed directory
    tracker,            \* MetadataTracker singleton: its metadata dict
    manifest,           \* processed/metadata.json
    runs,               \* executions of run_full_pipeline, in start order
    pipeline_running,   \* upload.py _pipeline_running
    pipeline_result,    \* upload.py _pipeline_result
    bgScan,             \* background chains whose scan has not run yet
    bgRun,              \* background chains whose scan is done, run pending
    insight_engine,     \* InsightEngine singleton and the call in progress
    quota,              \* what the environment may still do in this behaviour
    last                \* the last operation: what it read, what it answered

vars == <<files, archives, processed_hashes, tracker_file, snapshot, derived, tracker,
          manifest, runs, pipeline_running, pipeline_result, bgScan, bgRun,
          insight_engine, quota, last>>

fsVars == <<files, archives, processed_hashes, tracker_file, snapshot>>
runVars == <<derived, tracker, manifest, runs, pipeline_running,
             pipeline_result>>

-----------------------------------------------------------------------------
(* Bounds of the model *)

\* Spec: the ingestion scenario (several uploads, one pipeline run)
IngestUploads == 2  \* uploads and fetches in one behaviour
IngestResets == 1   \* resets in one behaviour
IngestRuns == 1     \* executions of run_full_pipeline in one behaviour
IngestActive == 1   \* executions in progress at the same time
IngestSwitches == 0 \* switches between executions in progress

\* SpecRuns: the concurrency scenario (one upload, overlapping runs)
RunsUploads == 1
RunsResets == 1
RunsRuns == 2
RunsActive == 2
RunsSwitches == 1

\* SpecSeq: the sequential scenario (one upload, one run after the other)
SeqUploads == 1
SeqResets == 1
SeqRuns == 2
SeqActive == 1
SeqSwitches == 0

\* SpecRerun: files placed before the start, one upload, two runs in turn
RerunUploads == 1
RerunResets == 1
RerunRuns == 2
RerunActive == 1
RerunSwitches == 0

-----------------------------------------------------------------------------
(* The universe of inputs *)

Kinds == <<"enrolment", "demographic", "biometric">>
KindSet == {Kinds[i] : i \in 1..3}

Dirs == {"manual", "uploads"}
Names == {"a"}              \* file names of uploaded / fetched CSVs
ArchNames == {"z"}          \* archive stems (the extraction directory)

\* content hashes: e1 enrolment; d1, d2 demographic; dx demographic whose
\* body pl.read_csv rejects; dm demographic without state/district columns
Hashes == {"e1", "d1", "d2", "dx", "dm"}

KindOf(h) == IF h = "e1" THEN "enrolment" ELSE "demographic"
Readable(h) == h # "dx"
HasGeo(h) == h # "dm"

\* data-dependent engine filters: geo keys whose mvi reaches the cluster
\* threshold, that have a flagged day, that have four or more days
HighMvi(h) == h = "d2"
Flagged(h) == h = "d2"
LongSeries(h) == h = "d2"

FileRecs == [dir : Dirs, name : Names \cup ArchNames, hash : Hashes]
ArchRecs == [name : ArchNames, inner : Hashes]

HashesOf(F) == {f.hash : f \in F}
InDir(fs, d) == {f \in fs : f.dir = d}

\* the bag of contents of a list of files (one row per file)
BagOfHashes(F) ==
    [h \in HashesOf(F) |-> Cardinality({f \in F : f.hash = h})]

Rows(b) == BagCardinality(b)

-----------------------------------------------------------------------------
(* Archive extraction and discovery (ingestion.py) *)

\* extract_archives_recursively / check_and_extract_archives: an archive is
\* extracted into uploads/<stem> unless that directory already has content
Extract(fs, ar) ==
    fs \cup { [dir |-> "uploads", name |-> a.name, hash |-> a.inner] :
                a \in { b \in ar :
                          ~ \E f \in fs : f.dir = "uploads" /\ f.name = b.name } }

\* a discovery without the seen_hashes test: every file is kept
Reps_KeepingAll(F) == {F}

\* the seen_hashes loop of discover_datasets: the files of F in some
\* directory order, the first file of every content hash kept
Reps(F) ==
    { R \in SUBSET F : /\ HashesOf(R) = HashesOf(F)
                       /\ Cardinality(R) = Cardinality(HashesOf(F)) }

ByKind(F, k) == {f \in F : KindOf(f.hash) = k}

\* convert_to_parquet(csv_paths, output_path, data_type); old is the
\* snapshot at output_path before the call
ConvertToParquet(F, old) ==
    LET dfs == {f \in F : Readable(f.hash)} IN
    IF F = {} THEN
        [status |-> "skipped", snap |-> old, total_rows |-> 0, final_rows |-> 0]
    ELSE IF dfs = {} THEN
        [status |-> "error", snap |-> old, total_rows |-> 0, final_rows |-> 0]
    ELSE
        [status |-> "success", snap |-> BagOfHashes(dfs),
         total_rows |-> Cardinality(dfs), final_rows |-> Cardinality(dfs)]

-----------------------------------------------------------------------------
(* IngestionTracker *)

\* the tracker file: json.dump(list(processed_hashes)); _load reads it back
\* with set(json.load(f)), and answers the empty set when there is no file
NoTrackerFile == [exists |-> FALSE, hashes |-> {}]
save(ledger) == [exists |-> TRUE, hashes |-> ledger]

\* a mark_processed that keeps only the hashes it is given
mark_processed_Replacing(ledger, H) == H

\* IngestionTracker.mark_processed for the files of a list: the in-memory
\* set afterwards (every call also saves it)
mark_processed(ledger, H) == ledger \cup H

\* IngestionTracker.clear_cache: the in-memory set afterwards (the file is
\* unlinked and the empty set saved)
clear_cache(ledger) == {}

-----------------------------------------------------------------------------
(* HardenedDataIngestionManager.scan_and_ingest_all *)

\* a step 3 that does not consult the ledger
UniqueNewFiles_IgnoringLedger(repM, repU, ledger) ==
    repM \cup {f \in repU : \A g \in repM : g.hash # f.hash}

\* step 3: drop intra-scan duplicates and files whose hash is in the ledger;
\* the manual list precedes the uploads list
UniqueNewFiles(repM, repU, ledger) ==
    {f \in repM : f.hash \notin ledger}
      \cup {f \in repU : /\ f.hash \notin ledger
                         /\ \A g \in repM : g.hash # f.hash}

\* step 4: the list handed to convert_to_parquet for a kind
FilesToConvert(new, k) == ByKind(new, k)

\* step 4: the hashes marked processed after the conversion of a kind
MarkedAfterConvert(F, result) == HashesOf(F)

NoOp == [op |-> "none", read |-> {}, known |-> {}, resp |-> "none", run |-> 0]

ScanAndIngestAll(caller) ==
    LET fs1 == Extract(files, archives) IN
    \E repM \in Reps(InDir(fs1, "manual")), repU \in Reps(InDir(fs1, "uploads")) :
        LET new == UniqueNewFiles(repM, repU, processed_hashes)
            res == [k \in KindSet |->
                      ConvertToParquet(FilesToConvert(new, k), snapshot[k])]
        IN  /\ files' = fs1
            /\ snapshot' = [k \in KindSet |-> res[k].snap]
            /\ LET marked == UNION { MarkedAfterConvert(FilesToConvert(new, k),
                                                        res[k]) : k \in KindSet }
               IN  /\ processed_hashes' = mark_processed(processed_hashes, marked)
                   /\ tracker_file' =
                        IF marked = {} THEN tracker_file
                        ELSE save(mark_processed(processed_hashes, marked))
            /\ last' = [NoOp EXCEPT !.op = caller,
                                    !.read = UNION {HashesOf(FilesToConvert(new, k)) :
                                                      k \in KindSet},
                                    !.known = processed_hashes,
                                    !.resp = IF new = {} THEN "no_new" ELSE "ingested"]
            /\ UNCHANGED archives

\* POST /scan
ScanManualFolder ==
    /\ ScanAndIngestAll("scan")
    /\ UNCHANGED <<bgScan, bgRun, quota>>
    /\ UNCHANGED runVars
    /\ UNCHANGED insight_engine

\* the first background task of an upload or a fetch
BackgroundScan ==
    /\ bgScan > 0
    /\ ScanAndIngestAll("scan")
    /\ bgScan' = bgScan - 1
    /\ bgRun' = bgRun + 1
    /\ UNCHANGED quota
    /\ UNCHANGED runVars
    /\ UNCHANGED insight_engine

-----------------------------------------------------------------------------
(* Uploads, fetches and reset (upload.py, data_ingestion_manager.py) *)


\* POST /file with a CSV: organize_uploaded_file classifies the content,
\* replaces manual/<kind>/<name>, reads a preview; on success the handler
\* schedules scan_and_ingest_all and then run_full_pipeline
UploadCsv ==
    \E name \in Names, h \in Hashes :
    \E previewOk \in (IF Readable(h) THEN {TRUE} ELSE BOOLEAN) :
        LET target == [dir |-> "manual", name |-> name, hash |-> h]
            kept == {f \in files : ~ (/\ f.dir = "manual"
                                      /\ f.name = name
                                      /\ KindOf(f.hash) = KindOf(h))}
        IN  /\ quota.uploads > 0
            /\ quota' = [quota EXCEPT !.uploads = @ - 1]
            /\ files' = kept \cup {target}
            /\ bgScan' = IF previewOk THEN bgScan + 1 ELSE bgScan
            /\ last' = [NoOp EXCEPT !.op = "upload",
                                    !.resp = IF previewOk THEN "success" ELSE "error500"]
            /\ UNCHANGED <<archives, processed_hashes, tracker_file, snapshot, bgRun>>
            /\ UNCHANGED runVars
    /\ UNCHANGED insight_engine

\* POST /file with an archive: stored as uploads/<name>, then extracted
UploadArchive ==
    \E z \in ArchNames, h \in Hashes :
        LET ar == {a \in archives : a.name # z} \cup {[name |-> z, inner |-> h]}
            fs1 == Extract(files, ar)
        IN  /\ quota.uploads > 0
            /\ quota' = [quota EXCEPT !.uploads = @ - 1]
            /\ archives' = ar
            /\ files' = fs1
            /\ bgScan' = bgScan + 1
            /\ last' = [NoOp EXCEPT !.op = "upload", !.resp = "success"]
            /\ UNCHANGED <<processed_hashes, tracker_file, snapshot, bgRun>>
            /\ UNCHANGED runVars
    /\ UNCHANGED insight_engine

\* POST /fetch-uidai: the fetcher parses the response with pl.read_csv and
\* writes it to uploads/api_fetch/<timestamped name>
FetchUidaiData ==
    \E name \in Names, h \in {x \in Hashes : Readable(x)} :
        LET target == [dir |-> "uploads", name |-> name, hash |-> h]
            kept == {f \in files : ~ (f.dir = "uploads" /\ f.name = name)}
        IN  /\ quota.uploads > 0
            /\ quota' = [quota EXCEPT !.uploads = @ - 1]
            /\ files' = kept \cup {target}
            /\ bgScan' = bgScan + 1
            /\ last' = [NoOp EXCEPT !.op = "fetch", !.resp = "success"]
            /\ UNCHANGED <<archives, processed_hashes, tracker_file, snapshot, bgRun>>
            /\ UNCHANGED runVars
    /\ UNCHANGED insight_engine

\* POST /reset -> reset_system: the processed directory (snapshots, derived
\* tables, metadata.json) and the uploads directory are emptied, the manual
\* directory is spared, the ledger is cleared
\* a reset that spares the uploads directory too
SparedByReset_AlsoUploads(fs) == fs

\* reset_system steps 1 and 2: the raw files that survive
SparedByReset(fs) == InDir(fs, "manual")

ResetAllData ==
    /\ quota.resets > 0
    /\ quota' = [quota EXCEPT !.resets = @ - 1]
    /\ files' = SparedByReset(files)
    /\ archives' = {}
    /\ processed_hashes' = clear_cache(processed_hashes)
    /\ tracker_file' = save(clear_cache(processed_hashes))
    /\ snapshot' = [k \in KindSet |-> EmptyBag]
    /\ derived' = [t \in DOMAIN derived |-> [exists |-> FALSE, src |-> {}]]
    /\ manifest' = [manifest EXCEPT !.exists = FALSE]
    /\ last' = [NoOp EXCEPT !.op = "reset", !.resp = "success",
                            !.known = processed_hashes]
    /\ UNCHANGED <<tracker, runs, pipeline_running, pipeline_result, bgScan, bgRun>>
    /\ UNCHANGED insight_engine

-----------------------------------------------------------------------------
(* MetadataTracker (metadata_tracker.py) *)

\* stage names in the order run_full_pipeline records them
Stages == <<"data_ingestion", "signal_separation", "mvi_calculation",
            "spatial_analysis", "anomaly_detection", "trend_typology",
            "acceleration", "seasonality", "policy_mapping",
            "insight_generation">>
NumStages == Len(Stages)
StageSet == {Stages[i] : i \in 1..NumStages}

\* a stage record; run stands for its timestamp (0: no record)
NoStage == [run |-> 0, rows_in |-> 0, rows_out |-> 0]

\* MetadataTracker.__init__
NewMetadata ==
    [status |-> "pending", run |-> 0,
     stages |-> [s \in StageSet |-> NoStage],
     errors |-> <<>>, total_in |-> 0, total_out |-> 0]

\* MetadataTracker.start_pipeline
start_pipeline(meta, id) ==
    [meta EXCEPT !.run = id, !.status = "running"]

\* MetadataTracker.record_stage
record_stage(meta, name, rin, rout, id) ==
    [meta EXCEPT !.stages[name] = [run |-> id, rows_in |-> rin, rows_out |-> rout],
                 !.total_in = @ + rin,
                 !.total_out = @ + rout]

\* MetadataTracker.record_error
record_error(meta, id) ==
    [meta EXCEPT !.errors = Append(@, id)]

\* a complete_pipeline that leaves the status as it is
complete_pipeline_KeepingStatus(meta) == meta

\* MetadataTracker.complete_pipeline: the status it sets; save() then writes
\* the metadata to metadata.json
complete_pipeline(meta) ==
    [meta EXCEPT !.status = IF Len(meta.errors) = 0 THEN "completed"
                            ELSE "completed_with_errors"]

-----------------------------------------------------------------------------
(* The engines: what a stage reads, writes and returns *)

Tables == {"signal_separated", "mvi_analytics", "mvi_timeseries",
           "spatial_clusters", "anomaly_analytics", "typology_analytics",
           "acceleration_analytics", "seasonality_analytics",
           "policy_recommendations", "decision_insights"}

NoTable == [exists |-> FALSE, src |-> {}]
Table(S) == [exists |-> TRUE, src |-> S]

\* write_parquet guarded by "if len(df) > 0"
WriteIfRows(d, t, S) == IF S = {} THEN d ELSE [d EXCEPT ![t] = Table(S)]

\* aggregate_by_geo groups by state and district: it raises when a
\* non-empty snapshot has no file with these columns
NoGeoColumns(b) == b # EmptyBag /\ \A h \in BagToSet(b) : ~ HasGeo(h)

\* run_signal_separation
SignalSeparation(snap, d) ==
    LET S == BagToSet(snap["demographic"]) \cup BagToSet(snap["biometric"]) IN
    [raises |-> NoGeoColumns(snap["demographic"]) \/ NoGeoColumns(snap["biometric"]),
     rows |-> Cardinality(S), out |-> S,
     derived |-> [d EXCEPT !["signal_separated"] = Table(S)]]

\* run_mvi_calculation: calculate_mvi and generate_mvi_timeseries
MviCalculation(snap, d) ==
    LET sig == d["signal_separated"]
        M == IF ~ sig.exists \/ snap["enrolment"] = EmptyBag THEN {} ELSE sig.src
        T == IF snap["demographic"] = EmptyBag \/ snap["enrolment"] = EmptyBag
             THEN {} ELSE BagToSet(snap["demographic"])
    IN  [raises |-> FALSE,
         rows |-> Cardinality(M), out |-> M,
         derived |-> WriteIfRows([d EXCEPT !["mvi_analytics"] = Table(M)],
                                 "mvi_timeseries", T)]

\* calculate_mvi returns its default only when signal_df or enrolment_df is
\* None.  After a separation over no snapshot, signal_separated exists with
\* no row and with untyped columns; signal_df.join(enrolment_agg,
\* on='geo_key') then has key columns of different types
JoinKeysDiffer(snap, d) ==
    /\ d["signal_separated"].exists
    /\ d["signal_separated"].src = {}
    /\ snap["enrolment"] # EmptyBag

\* run_spatial_analysis
SpatialAnalysis(snap, d) ==
    LET C == {h \in d["mvi_analytics"].src : HighMvi(h)} IN
    [raises |-> FALSE, rows |-> Cardinality(C), out |-> C,
     derived |-> [d EXCEPT !["spatial_clusters"] = Table(C)]]

\* run_anomaly_detection; the orchestrator counts the flagged rows
AnomalyDetection(snap, d) ==
    LET A == d["mvi_timeseries"].src IN
    [raises |-> FALSE, rows |-> Cardinality({h \in A : Flagged(h)}), out |-> A,
     derived |-> WriteIfRows(d, "anomaly_analytics", A)]

\* run_trend_typology
TrendTypology(snap, d) ==
    LET Y == d["mvi_analytics"].src IN
    [raises |-> FALSE, rows |-> Cardinality(Y), out |-> Y,
     derived |-> WriteIfRows(d, "typology_analytics", Y)]

\* run_acceleration_analysis
AccelerationAnalysis(snap, d) ==
    LET A == {h \in d["mvi_timeseries"].src : LongSeries(h)} IN
    [raises |-> FALSE, rows |-> Cardinality(A), out |-> A,
     derived |-> WriteIfRows(d, "acceleration_analytics", A)]

\* run_seasonality_detection
SeasonalityDetection(snap, d) ==
    LET S == d["mvi_timeseries"].src IN
    [raises |-> FALSE, rows |-> Cardinality(S), out |-> S,
     derived |-> WriteIfRows(d, "seasonality_analytics", S)]

\* run_policy_mapping
PolicyMapping(snap, d) ==
    LET P == d["typology_analytics"].src IN
    [raises |-> FALSE, rows |-> Cardinality(P), out |-> P,
     derived |-> WriteIfRows(d, "policy_recommendations", P)]

\* run_insight_generation
InsightGeneration(snap, d) ==
    LET I == d["mvi_analytics"].src IN
    [raises |-> FALSE, rows |-> Cardinality(I), out |-> I,
     derived |-> WriteIfRows(d, "decision_insights", I)]

Engine(stage, snap, d) ==
    CASE stage = "signal_separation" -> SignalSeparation(snap, d)
      [] stage = "mvi_calculation" -> MviCalculation(snap, d)
      [] stage = "spatial_analysis" -> SpatialAnalysis(snap, d)
      [] stage = "anomaly_detection" -> AnomalyDetection(snap, d)
      [] stage = "trend_typology" -> TrendTypology(snap, d)
      [] stage = "acceleration" -> AccelerationAnalysis(snap, d)
      [] stage = "seasonality" -> SeasonalityDetection(snap, d)
      [] stage = "policy_mapping" -> PolicyMapping(snap, d)
      [] stage = "insight_generation" -> InsightGeneration(snap, d)

\* whether the engine of a stage raises: the join of calculate_mvi on key
\* columns of different types raises or not, depending on the type the
\* installed polars gives the columns of an empty frame
Raises(stage, snap, d) ==
    IF stage = "mvi_calculation" /\ JoinKeysDiffer(snap, d) THEN BOOLEAN
    ELSE {Engine(stage, snap, d).raises}

-----------------------------------------------------------------------------
(* run_full_pipeline (run_pipeline.py) *)

Finalize == NumStages + 1       \* position of the finalization stage

\* a fresh execution; rows_out, signal_rows, mvi_rows and typology_rows are
\* the locals later stages report as their rows_in; inputs is the number of
\* files discover_datasets returned (-1 before stage 1); ran lists the
\* stages the execution has entered
NewRun(origin) ==
    [origin |-> origin, pc |-> 1, outcome |-> "running", inputs |-> -1,
     rows_out |-> 0, signal_rows |-> 0, mvi_rows |-> 0, typology_rows |-> 0,
     ran |-> <<>>]

Active == {i \in DOMAIN runs : runs[i].outcome = "running"}

\* a body that skips every other stage
NextStage_Skipping(pc) == IF pc + 2 <= NumStages + 1 THEN pc + 2 ELSE pc + 1

\* the statement after a stage is the next stage of the function body
NextStage(pc) == pc + 1

\* the rows_in argument of a stage's record_stage call
RowsIn(stage, r) ==
    CASE stage = "signal_separation" -> r.rows_out
      [] stage = "mvi_calculation" -> r.signal_rows
      [] stage = "policy_mapping" -> r.typology_rows
      [] OTHER -> r.mvi_rows

\* the locals a stage assigns from the length of its result
AfterStage(r, stage, rows) ==
    [r EXCEPT !.pc = NextStage(r.pc),
              !.ran = Append(@, r.pc),
              !.signal_rows = IF stage = "signal_separation" THEN rows ELSE @,
              !.mvi_rows = IF stage = "mvi_calculation" THEN rows ELSE @,
              !.typology_rows = IF stage = "trend_typology" THEN rows ELSE @]

Ended(r, outcome) ==
    [r EXCEPT !.outcome = outcome, !.ran = Append(@, r.pc),
              !.rows_out = 0, !.signal_rows = 0, !.mvi_rows = 0,
              !.typology_rows = 0]

\* json.dump(self.metadata) into processed/metadata.json
Saved(meta) == [exists |-> TRUE, meta |-> meta]

\* a trigger_pipeline whose except block does not clear the flag
CallerEpilogue_FlagKeptOnRaise(i, outcome) ==
    IF runs[i].origin = "trigger"
    THEN /\ pipeline_running' = (outcome # "returned")
         /\ pipeline_result' = IF outcome = "returned" THEN "completed" ELSE "failed"
         /\ last' = [NoOp EXCEPT !.op = "trigger_return", !.run = i,
                                 !.resp = IF outcome = "returned" THEN "success"
                                          ELSE "error500"]
    ELSE /\ UNCHANGED <<pipeline_running, pipeline_result>>
         /\ last' = [NoOp EXCEPT !.op = "run_end", !.run = i, !.resp = outcome]

\* what the caller of run_full_pipeline does when it returns or raises:
\* trigger_pipeline clears _pipeline_running and stores the result; the
\* watcher and the background task only log
CallerEpilogue(i, outcome) ==
    IF runs[i].origin = "trigger"
    THEN /\ pipeline_running' = FALSE
         /\ pipeline_result' = IF outcome = "returned" THEN "completed" ELSE "failed"
         /\ last' = [NoOp EXCEPT !.op = "trigger_return", !.run = i,
                                 !.resp = IF outcome = "returned" THEN "success"
                                          ELSE "error500"]
    ELSE /\ UNCHANGED <<pipeline_running, pipeline_result>>
         /\ last' = [NoOp EXCEPT !.op = "run_end", !.run = i, !.resp = outcome]

\* the except block: record_error, complete_pipeline, raise PipelineError
ExceptBlock(i) ==
    LET meta == complete_pipeline(record_error(tracker, i)) IN
    /\ tracker' = meta
    /\ manifest' = Saved(meta)
    /\ runs' = [runs EXCEPT ![i] = Ended(@, "raised")]
    /\ CallerEpilogue(i, "raised")

\* Bounded interleaving of executions: a step of an execution other than the
\* one that stepped last, while that one is still in progress, is a switch
MayStep(i) ==
    \/ quota.turn = i
    \/ quota.turn \notin Active
    \/ quota.switches > 0

Stepped(i) ==
    IF quota.turn = i \/ quota.turn \notin Active
    THEN [quota EXCEPT !.turn = i]
    ELSE [quota EXCEPT !.turn = i, !.switches = @ - 1]

\* Stage 1: discover_datasets over the data directory, convert_to_parquet
\* for every kind with files, record_stage
IngestStage ==
    \E i \in Active :
        /\ runs[i].pc = 1
        /\ MayStep(i)
        /\ quota' = Stepped(i)
        /\ LET fs1 == Extract(files, archives) IN
           \E rep \in Reps(fs1) :
               LET res == [k \in KindSet |->
                             ConvertToParquet(ByKind(rep, k), snapshot[k])]
                   rin == res["enrolment"].total_rows + res["demographic"].total_rows
                            + res["biometric"].total_rows
                   rout == res["enrolment"].final_rows + res["demographic"].final_rows
                            + res["biometric"].final_rows
               IN  /\ files' = fs1
                   /\ snapshot' = [k \in KindSet |-> res[k].snap]
                   /\ tracker' = record_stage(tracker, "data_ingestion", rin, rout, i)
                   /\ runs' = [runs EXCEPT ![i] =
                                 [AfterStage(@, "data_ingestion", rout)
                                    EXCEPT !.rows_out = rout,
                                           !.inputs = Cardinality(rep)]]
                   /\ last' = [NoOp EXCEPT !.op = "data_ingestion", !.run = i,
                                           !.read = HashesOf(rep),
                                           !.known = processed_hashes]
        /\ UNCHANGED <<archives, processed_hashes, tracker_file, derived, manifest,
                       pipeline_running, pipeline_result, bgScan, bgRun>>
    /\ UNCHANGED insight_engine

\* Stages 2 to 10: the engine runs, then record_stage; an exception of the
\* engine reaches the except block
EngineStage ==
    \E i \in Active :
        /\ runs[i].pc \in 2..NumStages
        /\ MayStep(i)
        /\ quota' = Stepped(i)
        /\ LET stage == Stages[runs[i].pc]
               e == Engine(stage, snapshot, derived)
           IN  \E raised \in Raises(stage, snapshot, derived) :
               IF raised
               THEN /\ ExceptBlock(i)
                    /\ UNCHANGED derived
               ELSE /\ derived' = e.derived
                    /\ tracker' = record_stage(tracker, stage,
                                               RowsIn(stage, runs[i]), e.rows, i)
                    /\ runs' = [runs EXCEPT ![i] = AfterStage(@, stage, e.rows)]
                    /\ last' = [NoOp EXCEPT !.op = stage, !.run = i]
                    /\ UNCHANGED <<manifest, pipeline_running, pipeline_result>>
        /\ UNCHANGED <<files, archives, processed_hashes, tracker_file, snapshot, bgScan, bgRun>>
    /\ UNCHANGED insight_engine

\* the stages whose output a stage reads (1 = data_ingestion, ...,
\* Finalize = metadata finalization)
DependsOn(j) ==
    CASE j = 1 -> {}
      [] j = 2 -> {1}
      [] j = 3 -> {1, 2}
      [] j \in 4..8 -> {3}
      [] j = 9 -> {6}
      [] j = 10 -> {3, 6}
      [] OTHER -> 1..NumStages

\* the table a stage's engine owns
TableOf(stage) ==
    CASE stage = "signal_separation" -> "signal_separated"
      [] stage = "mvi_calculation" -> "mvi_analytics"
      [] stage = "spatial_analysis" -> "spatial_clusters"
      [] stage = "anomaly_detection" -> "anomaly_analytics"
      [] stage = "trend_typology" -> "typology_analytics"
      [] stage = "acceleration" -> "acceleration_analytics"
      [] stage = "seasonality" -> "seasonality_analytics"
      [] stage = "policy_mapping" -> "policy_recommendations"
      [] stage = "insight_generation" -> "decision_insights"

\* Stage 11: save_data_lineage, tracker.complete_pipeline, return results
Finalization ==
    \E i \in Active :
        /\ runs[i].pc = Finalize
        /\ MayStep(i)
        /\ quota' = Stepped(i)
        /\ LET meta == complete_pipeline(tracker) IN
            /\ tracker' = meta
            /\ manifest' = Saved(meta)
        /\ runs' = [runs EXCEPT ![i] = Ended(@, "returned")]
        /\ CallerEpilogue(i, "returned")
        /\ UNCHANGED <<files, archives, processed_hashes, tracker_file, snapshot, derived,
                       bgScan, bgRun>>
    /\ UNCHANGED insight_engine

-----------------------------------------------------------------------------
(* The callers of run_full_pipeline *)

\* get_tracker(); tracker.start_pipeline(); results = {...}
StartRun(origin) ==
    /\ quota.runs > 0
    /\ Cardinality(Active) < quota.active
    /\ quota' = [quota EXCEPT !.runs = @ - 1]
    /\ runs' = Append(runs, NewRun(origin))
    /\ tracker' = start_pipeline(tracker, Len(runs) + 1)
    /\ UNCHANGED <<files, archives, processed_hashes, tracker_file, snapshot, derived, manifest>>

\* a guard that never rejects
AlreadyRunning_Never == FALSE

\* the guard of trigger_pipeline
AlreadyRunning == pipeline_running

\* POST /run-pipeline while _pipeline_running is set
TriggerRejected ==
    /\ AlreadyRunning
    /\ last' = [NoOp EXCEPT !.op = "trigger_pipeline", !.resp = "already_running"]
    /\ UNCHANGED <<files, archives, processed_hashes, tracker_file, snapshot, derived, tracker,
                   manifest, runs, pipeline_running, pipeline_result, bgScan, bgRun,
                   quota>>
    /\ UNCHANGED insight_engine

\* POST /run-pipeline: sets the flag and calls run_full_pipeline
TriggerPipeline ==
    /\ ~ AlreadyRunning
    /\ pipeline_running' = TRUE
    /\ pipeline_result' = "none"
    /\ StartRun("trigger")
    /\ last' = [NoOp EXCEPT !.op = "trigger_pipeline", !.run = Len(runs) + 1,
                            !.resp = "started"]
    /\ UNCHANGED <<bgScan, bgRun>>
    /\ UNCHANGED insight_engine

\* get_data_status as the watcher reads it
NewDataDetected == \E f \in files : f.hash \notin processed_hashes
RawDataFound == files # {}
PipelineComplete ==
    /\ \A k \in KindSet : snapshot[k] # EmptyBag
    /\ \A t \in {"mvi_analytics", "spatial_clusters", "anomaly_analytics"} :
          derived[t].exists
WatcherTriggers == NewDataDetected \/ (~ PipelineComplete /\ RawDataFound)

\* pipeline_watcher: one poll that finds work calls run_full_pipeline; the
\* next poll comes after that call has ended
WatcherPoll ==
    /\ \A i \in Active : runs[i].origin # "watcher"
    /\ WatcherTriggers
    /\ StartRun("watcher")
    /\ last' = [NoOp EXCEPT !.op = "pipeline_watcher", !.run = Len(runs) + 1,
                            !.resp = "started"]
    /\ UNCHANGED <<pipeline_running, pipeline_result, bgScan, bgRun>>
    /\ UNCHANGED insight_engine

\* a pipeline task that does not wait for the scan scheduled before it
BackgroundRun_BeforeScan ==
    /\ bgScan > 0
    /\ bgScan' = bgScan - 1
    /\ StartRun("background")
    /\ last' = [NoOp EXCEPT !.op = "background_run", !.run = Len(runs) + 1,
                            !.resp = "started"]
    /\ UNCHANGED <<pipeline_running, pipeline_result, bgRun>>
    /\ UNCHANGED insight_engine

\* the second background task of an upload or a fetch
BackgroundRun ==
    /\ bgRun > 0
    /\ bgRun' = bgRun - 1
    /\ StartRun("background")
    /\ last' = [NoOp EXCEPT !.op = "background_run", !.run = Len(runs) + 1,
                            !.resp = "started"]
    /\ UNCHANGED <<pipeline_running, pipeline_result, bgScan>>
    /\ UNCHANGED insight_engine

-----------------------------------------------------------------------------
(* Pure functions of the engines.  A string is the sequence of its
   characters, so that "in" on strings is a search for a subsequence.
   A pending call is last = [op |-> "call", resp |-> the function,
   read and known |-> its arguments]; the action of the function replaces
   it by the call made, with resp the value returned. *)

Call(fn, arg, arg2) ==
    [op |-> "call", read |-> arg, known |-> arg2, resp |-> fn, run |-> 0]

MaxCols == 3                \* columns of a CSV header

\* str.lower() on the characters that occur in the headers
lower(w) ==
    [i \in DOMAIN w |-> IF w[i] = "A" THEN "a"
                        ELSE IF w[i] = "S" THEN "s" ELSE w[i]]

\* ind in text, on strings
Contains(text, ind) ==
    \E i \in 1..(Len(text) - Len(ind) + 1) :
        SubSeq(text, i, i + Len(ind) - 1) = ind

\* ' '.join(columns) of the columns in some order; no indicator holds a
\* blank, so an indicator is in the joined string exactly when it is in one
\* of the columns
InColumnsStr(columns, ind) == \E c \in columns : Contains(c, ind)

ENROLMENT_INDICATORS ==
    << <<"e", "n", "r", "o", "l">>,
       <<"a", "a", "d", "h", "a", "a", "r", "_", "g", "e", "n", "e", "r", "a", "t", "e", "d">>,
       <<"a", "g", "e", "_", "0", "_", "5">>,
       <<"a", "g", "e", "_", "5", "_", "1", "7">>,
       <<"a", "g", "e", "_", "1", "8">>,
       <<"t", "o", "t", "a", "l", "_", "e", "n", "r", "o", "l", "m", "e", "n", "t">>,
       <<"a", "g", "e", "_", "0", "_", "5">>,
       <<"a", "g", "e", "_", "5", "_", "1", "0">> >>

DEMOGRAPHIC_INDICATORS ==
    << <<"d", "e", "m", "o">>,
       <<"d", "e", "m", "o", "_", "a", "g", "e">>,
       <<"a", "d", "d", "r", "e", "s", "s", "_", "u", "p", "d", "a", "t", "e">>,
       <<"n", "a", "m", "e", "_", "u", "p", "d", "a", "t", "e">>,
       <<"d", "o", "b", "_", "u", "p", "d", "a", "t", "e">>,
       <<"m", "o", "b", "i", "l", "e", "_", "u", "p", "d", "a", "t", "e">>,
       <<"d", "e", "m", "o", "g", "r", "a", "p", "h", "i", "c">> >>

BIOMETRIC_INDICATORS ==
    << <<"b", "i", "o">>,
       <<"b", "i", "o", "_", "a", "g", "e">>,
       <<"f", "i", "n", "g", "e", "r", "p", "r", "i", "n", "t">>,
       <<"i", "r", "i", "s">>,
       <<"p", "h", "o", "t", "o", "_", "u", "p", "d", "a", "t", "e">>,
       <<"b", "i", "o", "m", "e", "t", "r", "i", "c">> >>

\* the column names the headers are drawn from
ColumnNames ==
    { <<"d", "a", "t", "e">>,
      <<"S", "t", "a", "t", "e">>,
      <<"d", "i", "s", "t", "r", "i", "c", "t">>,
      <<"p", "i", "n", "c", "o", "d", "e">>,
      <<"A", "g", "e", "_", "0", "_", "5">>,
      <<"a", "g", "e", "_", "5", "_", "1", "7">>,
      <<"a", "g", "e", "_", "1", "8", "_", "g", "r", "e", "a", "t", "e", "r">>,
      <<"d", "e", "m", "o", "_", "a", "g", "e", "_", "0", "_", "5">>,
      <<"d", "e", "m", "o", "_", "a", "g", "e", "_", "5", "_", "1", "7">>,
      <<"b", "i", "o", "_", "a", "g", "e", "_", "5", "_", "1", "7">>,
      <<"i", "r", "i", "s">>,
      <<"e", "n", "r", "o", "l", "m", "e", "n", "t", "_", "d", "a", "t", "e">> }

Headers == {h \in SUBSET ColumnNames : Cardinality(h) <= MaxCols}

\* sum(1 for ind in indicators if ind.lower() in columns_str)
Score(columns, indicators) ==
    Cardinality({i \in DOMAIN indicators :
                   InColumnsStr(columns, lower(indicators[i]))})

scores(columns) ==
    [enrolment |-> Score(columns, ENROLMENT_INDICATORS),
     demographic |-> Score(columns, DEMOGRAPHIC_INDICATORS),
     biometric |-> Score(columns, BIOMETRIC_INDICATORS)]

\* max(scores.values())
max_score(sc) ==
    CHOOSE m \in {sc[k] : k \in KindSet} : \A k \in KindSet : sc[k] <= m

\* max(scores, key=scores.get): the first key of the dict, in insertion
\* order, that has the highest score
FirstMax(sc) ==
    IF sc.enrolment = max_score(sc) THEN "enrolment"
    ELSE IF sc.demographic = max_score(sc) THEN "demographic"
    ELSE "biometric"

\* the fallback of classify_csv_by_content on the column patterns
Fallback(columns) ==
    IF \E c \in columns : \/ Contains(c, <<"a","g","e","_","0","_","5">>)
                          \/ Contains(c, <<"a","g","e","_","5","_","1","7">>)
                          \/ Contains(c, <<"a","g","e","_","1","8">>)
    THEN IF \E c \in columns : Contains(c, <<"d","e","m","o">>) THEN "demographic"
         ELSE IF \E c \in columns : Contains(c, <<"b","i","o">>) THEN "biometric"
         ELSE "enrolment"
    ELSE "DataClassificationError"

\* classify_csv_by_content on a header that pl.read_csv could read
classify_csv_by_content(header) ==
    LET columns == {lower(c) : c \in header}
        sc == scores(columns)
    IN  IF max_score(sc) = 0 THEN Fallback(columns) ELSE FirstMax(sc)

ClassifyCsvByContent ==
        /\ last.op = "call" /\ last.resp = "classify_csv_by_content"
        /\ last' = [last EXCEPT !.op = "classify_csv_by_content",
                                !.resp = classify_csv_by_content(last.read)]
        /\ UNCHANGED <<files, archives, processed_hashes, tracker_file, snapshot,
                       derived, tracker, manifest, runs, pipeline_running,
                       pipeline_result, bgScan, bgRun, quota>>
    /\ UNCHANGED insight_engine

MaxDays == 4                \* days of the series of one GeoKey

\* z-scores are counted in halves: 3 is 1.5, 6 is 3.0
z_threshold_critical == 8
z_threshold_high == 6
z_threshold_medium == 4
z_threshold_low == 3

\* the z-scores the rows of a series are drawn from
ZScores == {-8, -7, -4, -3, 0, 2, 3, 4, 6, 8}

Series == UNION { [1..n -> ZScores] : n \in 1..MaxDays }

Abs(x) == IF x < 0 THEN -x ELSE x

\* a classify_severity whose bands are open on the left
classify_severity_OpenBands(z_score) ==
    LET abs_z == Abs(z_score) IN
    IF abs_z > z_threshold_critical THEN "CRITICAL"
    ELSE IF abs_z > z_threshold_high THEN "HIGH"
    ELSE IF abs_z > z_threshold_medium THEN "MEDIUM"
    ELSE IF abs_z > z_threshold_low THEN "LOW"
    ELSE "NORMAL"

classify_severity(z_score) ==
    LET abs_z == Abs(z_score) IN
    IF abs_z >= z_threshold_critical THEN "CRITICAL"
    ELSE IF abs_z >= z_threshold_high THEN "HIGH"
    ELSE IF abs_z >= z_threshold_medium THEN "MEDIUM"
    ELSE IF abs_z >= z_threshold_low THEN "LOW"
    ELSE "NORMAL"

classify_anomaly_type(z_score, consecutive_anomalies) ==
    IF consecutive_anomalies > 3 THEN "STRUCTURAL"
    ELSE IF z_score > z_threshold_high THEN "SPIKE"
    ELSE IF z_score < -z_threshold_high THEN "DROP"
    ELSE "TRANSIENT"

\* detect_anomalies on the rows of one GeoKey sorted by date, from the
\* z-score column on: the flag, the type that map_elements computes with
\* lambda z: classify_anomaly_type(z), and the severity
detect_anomalies(zs) ==
    [i \in DOMAIN zs |->
       [z_score |-> zs[i],
        is_anomaly |-> Abs(zs[i]) >= z_threshold_low,
        anomaly_type |-> classify_anomaly_type(zs[i], 1),
        severity |-> classify_severity(zs[i])]]

DetectAnomalies ==
        /\ last.op = "call" /\ last.resp = "detect_anomalies"
        /\ last' = [last EXCEPT !.op = "detect_anomalies",
                                !.resp = detect_anomalies(last.read)]
        /\ UNCHANGED <<files, archives, processed_hashes, tracker_file, snapshot,
                       derived, tracker, manifest, runs, pipeline_running,
                       pipeline_result, bgScan, bgRun, quota>>
    /\ UNCHANGED insight_engine

MaxCount == 2               \* the largest count in a cell of a row

\* SIGNAL_WEIGHTS, in tenths
SIGNAL_WEIGHTS ==
    [demographic_adult |-> 10, demographic_youth |-> 6, demographic_child |-> 4,
     biometric_adult |-> 3, biometric_child_5 |-> 1, biometric_child_15 |-> 1]

\* the columns a frame is made of; state is a string column, the others
\* are Int64
SignalColumns == {"state", "total_updates", "demo_age_5_17", "demo_age_17_",
                  "bio_age_5_17", "bio_age_17_"}

IsNumeric(c) == c # "state"

\* a cell is {} when null, {v} when it holds v
Cells == {{}} \cup {{v} : v \in 1..MaxCount}

\* one row of a frame, over every choice of columns
SignalRows == UNION { [cols -> Cells] : cols \in SUBSET SignalColumns }

fill_null(cell, v) == IF cell = {} THEN v ELSE CHOOSE x \in cell : TRUE

RECURSIVE sum_horizontal(_, _)
sum_horizontal(row, cols) ==
    IF cols = {} THEN 0
    ELSE LET c == CHOOSE x \in cols : TRUE
         IN  fill_null(row[c], 0) + sum_horizontal(row, cols \ {c})

\* calculate_organic_signal: the organic_signal of a row, in tenths
calculate_organic_signal(row, data_type) ==
    LET numeric_cols == {c \in DOMAIN row : IsNumeric(c)}
        raw_count == sum_horizontal(row, numeric_cols)
    IN  IF data_type = "demographic" THEN
            LET adult_weight == SIGNAL_WEIGHTS.demographic_adult
                youth_weight == SIGNAL_WEIGHTS.demographic_youth
            IN  IF {"demo_age_5_17", "demo_age_17_"} \subseteq DOMAIN row
                THEN fill_null(row["demo_age_5_17"], 0) * youth_weight
                       + fill_null(row["demo_age_17_"], 0) * adult_weight
                ELSE IF numeric_cols # {} THEN raw_count * adult_weight
                ELSE 0
        ELSE
            LET adult_weight == SIGNAL_WEIGHTS.biometric_adult
                child_weight == SIGNAL_WEIGHTS.biometric_child_5
            IN  IF {"bio_age_5_17", "bio_age_17_"} \subseteq DOMAIN row
                THEN fill_null(row["bio_age_5_17"], 0) * child_weight
                       + fill_null(row["bio_age_17_"], 0) * adult_weight
                ELSE IF numeric_cols # {} THEN raw_count * child_weight
                ELSE 0

CalculateOrganicSignal ==
        /\ last.op = "call" /\ last.resp = "calculate_organic_signal"
        /\ last' = [last EXCEPT !.op = "calculate_organic_signal",
                                !.resp = calculate_organic_signal(last.read,
                                                                  last.known)]
        /\ UNCHANGED <<files, archives, processed_hashes, tracker_file, snapshot,
                       derived, tracker, manifest, runs, pipeline_running,
                       pipeline_result, bgScan, bgRun, quota>>
    /\ UNCHANGED insight_engine

\* TREND_CONFIG, in halves: 1 is 0.5, 4 is 2.0, 20 is 10.0
TREND_CONFIG ==
    [slope_high |-> 4, slope_moderate |-> 2, slope_decline |-> -1,
     variance_high |-> 20, variance_low |-> 4, acceleration_threshold |-> 1]

\* the metrics of a region, in halves, on and around every threshold
Slopes == -2..6
Variances == {0, 3, 4, 5, 19, 20, 21, 30}
Accelerations == {0, 1, 2}

\* a classify_trend that tests the slope patterns before the variance
classify_trend_SlopeFirst(slope, variance, acceleration) ==
    IF slope > TREND_CONFIG.slope_high THEN "persistent_inflow"
    ELSE IF variance > TREND_CONFIG.variance_high THEN "volatile"
    ELSE IF slope < TREND_CONFIG.slope_decline THEN "reversal"
    ELSE IF slope > 1 THEN "emerging_inflow"
    ELSE "stable"

classify_trend(slope, variance, acceleration) ==
    IF variance > TREND_CONFIG.variance_high THEN "volatile"
    ELSE IF /\ slope > TREND_CONFIG.slope_high
            /\ variance < TREND_CONFIG.variance_low THEN "persistent_inflow"
    ELSE IF /\ slope > TREND_CONFIG.slope_moderate
            /\ acceleration > TREND_CONFIG.acceleration_threshold THEN "emerging_inflow"
    ELSE IF slope < TREND_CONFIG.slope_decline THEN "reversal"
    ELSE IF Abs(slope) < 1 /\ variance < TREND_CONFIG.variance_low THEN "stable"
    ELSE IF slope > 1 THEN "emerging_inflow"
    ELSE "stable"

ClassifyTrend ==
        /\ last.op = "call" /\ last.resp = "classify_trend"
        /\ last' = [last EXCEPT !.op = "classify_trend",
                                !.resp = classify_trend(last.read.slope,
                                                        last.read.variance,
                                                        last.read.acceleration)]
        /\ UNCHANGED <<files, archives, processed_hashes, tracker_file, snapshot,
                       derived, tracker, manifest, runs, pipeline_running,
                       pipeline_result, bgScan, bgRun, quota>>
    /\ UNCHANGED insight_engine

MaxMvi == 70                \* the largest MVI value, in halves (35.0)

\* MVI_THRESHOLDS, in halves: 10 is 5, 30 is 15, 60 is 30
MVI_THRESHOLDS == [stable |-> 10, moderate |-> 30, elevated |-> 60]

\* the MVI values, in halves, negative ones included
MviValues == (-2)..MaxMvi

\* a classify_zone whose bands are closed on the right
classify_zone_ClosedRight(mvi_value) ==
    IF mvi_value <= MVI_THRESHOLDS.stable THEN "stable"
    ELSE IF mvi_value <= MVI_THRESHOLDS.moderate THEN "moderate_inflow"
    ELSE IF mvi_value <= MVI_THRESHOLDS.elevated THEN "elevated_inflow"
    ELSE "high_inflow"

classify_zone(mvi_value) ==
    IF mvi_value < MVI_THRESHOLDS.stable THEN "stable"
    ELSE IF mvi_value < MVI_THRESHOLDS.moderate THEN "moderate_inflow"
    ELSE IF mvi_value < MVI_THRESHOLDS.elevated THEN "elevated_inflow"
    ELSE "high_inflow"

ClassifyZone ==
        /\ last.op = "call" /\ last.resp = "classify_zone"
        /\ last' = [last EXCEPT !.op = "classify_zone",
                                !.resp = classify_zone(last.read)]
        /\ UNCHANGED <<files, archives, processed_hashes, tracker_file, snapshot,
                       derived, tracker, manifest, runs, pipeline_running,
                       pipeline_result, bgScan, bgRun, quota>>
    /\ UNCHANGED insight_engine

\* POLICY_MAPPINGS: the priority and the action type of every entry
POLICY_MAPPINGS ==
    [persistent_inflow |-> [priority |-> "HIGH", action_type |-> "infrastructure"],
     emerging_inflow |-> [priority |-> "HIGH", action_type |-> "social_program"],
     moderate_inflow |-> [priority |-> "MEDIUM", action_type |-> "education"],
     volatile |-> [priority |-> "MEDIUM", action_type |-> "governance"],
     reversal |-> [priority |-> "MEDIUM", action_type |-> "transport"],
     stable |-> [priority |-> "LOW", action_type |-> "maintenance"],
     high_inflow |-> [priority |-> "CRITICAL", action_type |-> "emergency"]]

\* the zone types and trend types of the calls, unknown ones included
ZoneTypes == {"stable", "moderate_inflow", "elevated_inflow", "high_inflow",
              "unknown_zone"}
TrendTypes == DOMAIN POLICY_MAPPINGS \cup {"unknown_trend"}

\* a get_policy_for_zone that looks the trend type up first
get_policy_for_zone_TrendFirst(zone_type, trend_type) ==
    IF trend_type \in DOMAIN POLICY_MAPPINGS THEN POLICY_MAPPINGS[trend_type]
    ELSE IF zone_type = "high_inflow" THEN POLICY_MAPPINGS["high_inflow"]
    ELSE POLICY_MAPPINGS["stable"]

get_policy_for_zone(zone_type, trend_type) ==
    IF zone_type = "high_inflow" THEN POLICY_MAPPINGS["high_inflow"]
    ELSE IF trend_type \in DOMAIN POLICY_MAPPINGS THEN POLICY_MAPPINGS[trend_type]
    ELSE IF zone_type = "stable" THEN POLICY_MAPPINGS["stable"]
    ELSE IF zone_type = "moderate_inflow" THEN POLICY_MAPPINGS["emerging_inflow"]
    ELSE IF zone_type = "elevated_inflow" THEN POLICY_MAPPINGS["persistent_inflow"]
    ELSE POLICY_MAPPINGS["stable"]

GetPolicyForZone ==
        /\ last.op = "call" /\ last.resp = "get_policy_for_zone"
        /\ last' = [last EXCEPT !.op = "get_policy_for_zone",
                                !.resp = get_policy_for_zone(last.read, last.known)]
        /\ UNCHANGED <<files, archives, processed_hashes, tracker_file, snapshot,
                       derived, tracker, manifest, runs, pipeline_running,
                       pipeline_result, bgScan, bgRun, quota>>
    /\ UNCHANGED insight_engine

MaxRegions == 2             \* GeoKeys of the joined frame of calculate_mvi

CONFIDENCE_THRESHOLDS == [high |-> 100000, medium |-> 50000]

calculate_confidence(population_base) ==
    IF population_base > CONFIDENCE_THRESHOLDS.high THEN "high"
    ELSE IF population_base > CONFIDENCE_THRESHOLDS.medium THEN "medium"
    ELSE "low"

\* the rows of signal_df after the left join with enrolment_agg: the organic
\* signal of a GeoKey and its population_base, {} when the join found none
OrganicSignals == {0, 600, 6000}
Populations == {{}, {0}, {40000}, {200000}}
JoinedRows == [organic_signal : OrganicSignals, population_base : Populations]
JoinedFrames == UNION { [1..n -> JoinedRows] : n \in 1..MaxRegions }

\* the k-th smallest of the values of a sequence
OrderStat(vals, k) ==
    CHOOSE v \in {vals[i] : i \in DOMAIN vals} :
        /\ Cardinality({i \in DOMAIN vals : vals[i] < v}) < k
        /\ Cardinality({i \in DOMAIN vals : vals[i] <= v}) >= k

\* pl.col('population_base').median() over the rows that have one; {} when
\* there is none (the populations are even, the mean of two is whole)
median(frame) ==
    LET known == SelectSeq(frame, LAMBDA r : r.population_base # {})
        vals == [i \in DOMAIN known |-> fill_null(known[i].population_base, 0)]
        n == Len(vals)
    IN  IF n = 0 THEN {}
        ELSE IF n % 2 = 1 THEN {OrderStat(vals, (n + 1) \div 2)}
        ELSE {(OrderStat(vals, n \div 2) + OrderStat(vals, n \div 2 + 1)) \div 2}

\* a median_pop that keeps a median of 0
median_pop_KeepingZero(frame) ==
    IF median(frame) = {} THEN 10000 ELSE fill_null(median(frame), 0)

\* median_pop: 10000 when the median is None or 0
median_pop(frame) ==
    IF median(frame) = {} \/ median(frame) = {0} THEN 10000
    ELSE fill_null(median(frame), 0)

\* (organic_signal / population_base) * 1000 in floating point: the
\* quotient in halves, or inf or nan when the divisor is 0
mvi_ratio(organic_signal, population_base) ==
    IF population_base = 0
    THEN [kind |-> IF organic_signal = 0 THEN "nan" ELSE "inf", val |-> 0]
    ELSE [kind |-> "finite", val |-> (organic_signal * 2000) \div population_base]

\* pl.when(is_infinite | is_nan).then(0.0).otherwise(mvi)
clamp(x) == IF x.kind \in {"inf", "nan"} THEN 0 ELSE x.val

\* calculate_mvi from the join on: population fill, mvi, zone, confidence
calculate_mvi(frame) ==
    [i \in DOMAIN frame |->
       LET pop == fill_null(frame[i].population_base, median_pop(frame))
           mvi == clamp(mvi_ratio(frame[i].organic_signal, pop))
       IN  [organic_signal |-> frame[i].organic_signal,
            population_base |-> pop,
            mvi |-> mvi,
            zone_type |-> classify_zone(mvi),
            confidence |-> calculate_confidence(pop)]]

CalculateMvi ==
        /\ last.op = "call" /\ last.resp = "calculate_mvi"
        /\ last' = [last EXCEPT !.op = "calculate_mvi",
                                !.resp = calculate_mvi(last.read)]
        /\ UNCHANGED <<files, archives, processed_hashes, tracker_file, snapshot,
                       derived, tracker, manifest, runs, pipeline_running,
                       pipeline_result, bgScan, bgRun, quota>>
    /\ UNCHANGED insight_engine

-----------------------------------------------------------------------------
(* InsightEngine (ai/insight_engine.py): model rotation of generate_content.
   One loop iteration of generate_content is one step. *)

MaxCalls == 2               \* calls of generate_content in one behaviour
MaxRefreshes == 1           \* calls of refresh_key in one behaviour

\* available_models when list_models gives nothing: the defaults, which the
\* priority sort leaves in this order; model_index counts from 0
available_models == <<"gemini-1.5-flash", "gemini-1.5-pro", "gemini-pro">>

NumModels == Len(available_models)

\* the engine after __init__ with a key: _initialize took the first model
\* whose GenerativeModel could be built
InsightEngine(first, calls, refreshes) ==
    [model_index |-> first, model |-> available_models[first + 1],
     initialized |-> TRUE,
     pc |-> "idle", attempt |-> 0, tried |-> <<>>, outcome |-> "none",
     calls |-> calls, refreshes |-> refreshes]

\* is_available
is_available(e) == e.initialized /\ e.model # "None"

\* a rotation that starts again at the first model when the list is used up
switch_targets_Wrapping(model_index) == 0..NumModels

\* _switch_to_next_model and _try_next_model: the indices the while loop can
\* stop at, from the given start: the first index whose GenerativeModel is
\* built, or NumModels when none is
switch_targets(start) ==
    IF start >= NumModels THEN {start} ELSE start..NumModels

\* the engine after the loop stopped at index k
switched(e, k) ==
    IF k < NumModels
    THEN [e EXCEPT !.model_index = k, !.model = available_models[k + 1]]
    ELSE [e EXCEPT !.model_index = k]

\* generate_content up to the loop: None when the engine is not available
GenerateContent ==
    /\ insight_engine.pc = "idle"
    /\ insight_engine.calls > 0
    /\ LET e == [insight_engine EXCEPT !.calls = @ - 1, !.attempt = 0,
                                       !.tried = <<>>]
       IN  IF ~ is_available(e)
           THEN /\ insight_engine' = [e EXCEPT !.outcome = "None"]
                /\ last' = [NoOp EXCEPT !.op = "generate_content", !.resp = "None"]
           ELSE /\ insight_engine' = [e EXCEPT !.pc = "loop", !.outcome = "none"]
                /\ last' = [NoOp EXCEPT !.op = "generate_content",
                                        !.resp = "started"]
    /\ UNCHANGED <<files, archives, processed_hashes, tracker_file, snapshot,
                   derived, tracker, manifest, runs, pipeline_running,
                   pipeline_result, bgScan, bgRun, quota>>

\* one iteration of "for attempt in range(max_retries)": the model answers,
\* or raises a recoverable or another error
Attempt ==
    /\ insight_engine.pc = "loop"
    /\ LET e == insight_engine
           max_retries == NumModels + 1
           done(o) == [e EXCEPT !.pc = "idle", !.outcome = o,
                                !.tried = Append(@, e.model)]
       IN  IF e.attempt >= max_retries
           THEN /\ insight_engine' = [e EXCEPT !.pc = "idle", !.outcome = "None"]
                /\ last' = [NoOp EXCEPT !.op = "attempt", !.known = "exhausted",
                                        !.resp = "None"]
           ELSE \E answer \in {"text", "recoverable", "other"} :
                  IF answer = "text"
                  THEN /\ insight_engine' = done("text")
                       /\ last' = [NoOp EXCEPT !.op = "attempt", !.known = answer,
                                               !.read = e.model, !.resp = "text"]
                  ELSE IF answer = "other"
                  THEN /\ insight_engine' = done("error")
                       /\ last' = [NoOp EXCEPT !.op = "attempt", !.known = answer,
                                               !.read = e.model, !.resp = "error"]
                  ELSE \E k \in switch_targets(e.model_index + 1) :
                         IF k < NumModels
                         THEN /\ insight_engine' =
                                   [switched(e, k) EXCEPT !.attempt = @ + 1,
                                                          !.tried = Append(@, e.model)]
                              /\ last' = [NoOp EXCEPT !.op = "attempt",
                                                      !.known = answer,
                                                      !.read = e.model,
                                                      !.resp = "continue"]
                         ELSE /\ insight_engine' =
                                   [switched(done("AIServiceError"), k)
                                      EXCEPT !.attempt = @ + 1]
                              /\ last' = [NoOp EXCEPT !.op = "attempt",
                                                      !.known = answer,
                                                      !.read = e.model,
                                                      !.resp = "AIServiceError"]
    /\ UNCHANGED <<files, archives, processed_hashes, tracker_file, snapshot,
                   derived, tracker, manifest, runs, pipeline_running,
                   pipeline_result, bgScan, bgRun, quota>>

\* refresh_key: model_index = 0, then _initialize, which may fail
RefreshKey ==
    /\ insight_engine.pc = "idle"
    /\ insight_engine.refreshes > 0
    /\ \E k \in switch_targets(0), ok \in BOOLEAN :
          insight_engine' =
              [switched([insight_engine EXCEPT !.refreshes = @ - 1], k)
                 EXCEPT !.initialized = ok]
    /\ last' = [NoOp EXCEPT !.op = "refresh_key"]
    /\ UNCHANGED <<files, archives, processed_hashes, tracker_file, snapshot,
                   derived, tracker, manifest, runs, pipeline_running,
                   pipeline_result, bgScan, bgRun, quota>>

-----------------------------------------------------------------------------
(* The state machine *)

InitRest(present, uploads, resets, nruns, active, switches) ==
    /\ quota = [uploads |-> uploads, resets |-> resets, runs |-> nruns,
                active |-> active, switches |-> switches, turn |-> 0]
    /\ files = present
    /\ archives = {}
    /\ processed_hashes = {}
    /\ tracker_file = NoTrackerFile
    /\ snapshot = [k \in KindSet |-> EmptyBag]
    /\ derived = [t \in Tables |-> NoTable]
    /\ tracker = NewMetadata
    /\ manifest = [exists |-> FALSE, meta |-> NewMetadata]
    /\ runs = <<>>
    /\ pipeline_running = FALSE
    /\ pipeline_result = "none"
    /\ bgScan = 0
    /\ bgRun = 0

InitWith(present, uploads, resets, nruns, active, switches) ==
    /\ InitRest(present, uploads, resets, nruns, active, switches)
    /\ insight_engine = InsightEngine(0, 0, 0)
    /\ last = NoOp

Next ==
    \/ UploadCsv
    \/ UploadArchive
    \/ FetchUidaiData
    \/ ScanManualFolder
    \/ BackgroundScan
    \/ ResetAllData
    \/ TriggerPipeline
    \/ TriggerRejected
    \/ WatcherPoll
    \/ BackgroundRun
    \/ IngestStage
    \/ EngineStage
    \/ Finalization

Init == InitWith({}, IngestUploads, IngestResets, IngestRuns, IngestActive, IngestSwitches)
Spec == Init /\ [][Next]_vars

InitRuns == InitWith({}, RunsUploads, RunsResets, RunsRuns, RunsActive, RunsSwitches)
SpecRuns == InitRuns /\ [][Next]_vars

InitSeq == InitWith({}, SeqUploads, SeqResets, SeqRuns, SeqActive, SeqSwitches)
SpecSeq == InitSeq /\ [][Next]_vars

\* the process starts with an enrolment file and a demographic file that
\* were placed in data/manual
PlacedFiles ==
    {[dir |-> "manual", name |-> "a", hash |-> "e1"],
     [dir |-> "manual", name |-> "a", hash |-> "d2"]}
InitRerun ==
    InitWith(PlacedFiles, RerunUploads, RerunResets, RerunRuns, RerunActive,
             RerunSwitches)
SpecRerun == InitRerun /\ [][Next]_vars

\* The pure functions: the initial state draws a call and its arguments
\* from the bounded sets, the action of the function makes the call
InitFn ==
    /\ InitRest({}, 0, 0, 0, 0, 0)
    /\ insight_engine = InsightEngine(0, 0, 0)
    /\ \/ \E header \in Headers :
              last = Call("classify_csv_by_content", header, {})
       \/ \E zs \in Series :
              last = Call("detect_anomalies", zs, {})
       \/ \E row \in SignalRows, data_type \in {"demographic", "biometric"} :
              last = Call("calculate_organic_signal", row, data_type)
       \/ \E slope \in Slopes, variance \in Variances,
             acceleration \in Accelerations :
              last = Call("classify_trend",
                          [slope |-> slope, variance |-> variance,
                           acceleration |-> acceleration], {})
       \/ \E mvi_value \in MviValues :
              last = Call("classify_zone", mvi_value, {})
       \/ \E zone_type \in ZoneTypes, trend_type \in TrendTypes :
              last = Call("get_policy_for_zone", zone_type, trend_type)
       \/ \E frame \in JoinedFrames :
              last = Call("calculate_mvi", frame, {})

NextFn ==
    \/ ClassifyCsvByContent
    \/ DetectAnomalies
    \/ CalculateOrganicSignal
    \/ ClassifyTrend
    \/ ClassifyZone
    \/ GetPolicyForZone
    \/ CalculateMvi

SpecFn == InitFn /\ [][NextFn]_vars

\* The AI engine: calls of generate_content and refresh_key, from an engine
\* whose _initialize stopped at any of the models
InitAi ==
    /\ InitRest({}, 0, 0, 0, 0, 0)
    /\ \E first \in 0..(NumModels - 1) :
          insight_engine = InsightEngine(first, MaxCalls, MaxRefreshes)
    /\ last = NoOp

NextAi ==
    \/ GenerateContent
    \/ Attempt
    \/ RefreshKey

SpecAi == InitAi /\ [][NextAi]_vars

\* the for loop of generate_content runs on once it is entered
SpecAiLive == SpecAi /\ WF_vars(Attempt)

-----------------------------------------------------------------------------
(* Properties *)

\* the execution whose end was the last operation
JustEnded(i) == last.run = i /\ last.op \in {"run_end", "trigger_return"}

\* C1: across scans and pipeline runs, a file whose content hash is already
\* in the processed-hash ledger is never read and converted again: what an
\* operation hands to convert_to_parquet shares nothing with the ledger as
\* it was when the operation began.
C1_RecordedFileNeverReadAgain == last.read \cap last.known = {}

\* C2: when a scan finds a new file of a kind, the snapshot it writes for
\* that kind holds every distinct (readable) content of that kind ever
\* ingested, the previously processed ones and the new ones.
C2_SnapshotFromUnionOfIngested ==
    [][ \A k \in KindSet :
          (last'.op = "scan" /\ \E h \in last'.read : KindOf(h) = k)
            => \A h \in processed_hashes' :
                  (KindOf(h) = k /\ Readable(h)) => BagIn(h, snapshot'[k]) ]_vars

\* C3: a scan made when the hash of every discovered file is already in the
\* ledger is a no-op: no file is converted, no snapshot is written or
\* changed and the ledger is unchanged.
C3_ScanWithoutNewFileIsNoOp ==
    [][ (/\ last'.op = "scan"
         /\ \A f \in Extract(files, archives) : f.hash \in processed_hashes)
          => (/\ last'.read = {}
              /\ snapshot' = snapshot
              /\ processed_hashes' = processed_hashes) ]_vars

\* C3 witness: a scan has just found files, all of them in the ledger, with
\* a snapshot on disk
C3_Witness ==
    /\ last.op = "scan" /\ last.resp = "no_new"
    /\ files # {}
    /\ \A f \in files : f.hash \in processed_hashes
    /\ \E k \in KindSet : snapshot[k] # EmptyBag

\* C4: a hash enters the ledger only after the rows of its file have been
\* written into the snapshot of its kind; a file that was skipped as
\* unreadable or whose conversion returned an error is not marked.
C4_MarkedOnlyAfterRowsWritten ==
    [][ \A h \in processed_hashes' \ processed_hashes :
          BagIn(h, snapshot'[KindOf(h)]) ]_vars

\* C5: trigger_pipeline invoked while _pipeline_running is set answers
\* "already_running" and starts no execution; at most one execution
\* started through trigger_pipeline is in progress at any time.
C5_TriggerRejectedWhileRunning ==
    /\ [](Cardinality({i \in Active : runs[i].origin = "trigger"}) <= 1)
    /\ [][ (pipeline_running /\ last'.op = "trigger_pipeline")
             => (/\ last'.resp = "already_running"
                 /\ runs' = runs
                 /\ tracker' = tracker) ]_vars

\* C5 witness: a trigger has just been rejected while the execution an
\* earlier trigger started is in progress
C5_Witness ==
    /\ last.op = "trigger_pipeline" /\ last.resp = "already_running"
    /\ \E i \in Active : runs[i].origin = "trigger"

\* C6: whatever the trigger (manual, watcher, background task of an upload
\* or fetch), at most one execution of run_full_pipeline is active.
C6_AtMostOneRunActive == Cardinality(Active) <= 1

\* C7: when an exception escapes a stage, the run is marked failed, the
\* error is recorded, the partial metadata is in the manifest when the
\* exception reaches the caller, and the caller sees the exception.
C7_RaisingRunMarkedFailed ==
    \A i \in DOMAIN runs :
        (JustEnded(i) /\ runs[i].outcome = "raised")
          => /\ last.resp \in {"raised", "error500"}
             /\ manifest.exists
             /\ manifest.meta.status = "failed"
             /\ \E n \in DOMAIN manifest.meta.errors : manifest.meta.errors[n] = i
             /\ \A j \in 1..(runs[i].pc - 1) :
                   manifest.meta.stages[Stages[j]].run # 0

\* C8: in every run the stages are entered strictly in dependency order, no
\* stage before the stages it depends on are done, and once a stage has
\* raised no later stage is executed or recorded in that run.
C8_StagesInDependencyOrder ==
    \A i \in DOMAIN runs :
        LET r == runs[i] IN
        /\ \A n \in 1..Len(r.ran) :
              \A d \in DependsOn(r.ran[n]) : \E m \in 1..(n - 1) : r.ran[m] = d
        /\ \A n \in 1..(Len(r.ran) - 1) : r.ran[n] < r.ran[n + 1]
        /\ r.outcome = "raised"
             => /\ r.pc = r.ran[Len(r.ran)]
                /\ \A j \in 1..NumStages :
                      tracker.stages[Stages[j]].run = i => j < r.pc

\* C8 witness: one execution has raised in a stage and another has gone
\* through every stage
C8_Witness ==
    /\ \E i \in DOMAIN runs : runs[i].outcome = "raised" /\ Len(runs[i].ran) > 1
    /\ \E i \in DOMAIN runs : runs[i].outcome = "returned"

\* C9: a run with zero input files completes every stage with rows_out = 0,
\* ends with status "completed" and raises nothing, also when it follows
\* earlier runs of the same process.  Stated for the runs that found no
\* file and end with the data directory and the snapshots still empty,
\* after an earlier run of the process that had input files.
C9_ZeroInputRunCompletes ==
    \A i \in DOMAIN runs :
        (/\ JustEnded(i)
         /\ runs[i].inputs = 0
         /\ files = {} /\ archives = {}
         /\ \A k \in KindSet : snapshot[k] = EmptyBag
         /\ \E e \in 1..(i - 1) : runs[e].outcome # "running" /\ runs[e].inputs > 0)
          => /\ runs[i].outcome = "returned"
             /\ manifest.meta.status = "completed"
             /\ \A st \in StageSet : /\ manifest.meta.stages[st].run # 0
                                     /\ manifest.meta.stages[st].rows_out = 0

\* C10: the manifest persisted at the end of a run describes only that run:
\* its stage records, its errors and its row totals hold nothing recorded
\* by an earlier run of the process.
C10_ManifestDescribesOnlyThatRun ==
    \A i \in DOMAIN runs :
        JustEnded(i)
          => LET meta == manifest.meta
                 RECURSIVE RowsInTo(_), RowsOutTo(_)
                 RowsInTo(j) ==
                     IF j = 0 THEN 0
                     ELSE RowsInTo(j - 1) + meta.stages[Stages[j]].rows_in
                 RowsOutTo(j) ==
                     IF j = 0 THEN 0
                     ELSE RowsOutTo(j - 1) + meta.stages[Stages[j]].rows_out
             IN  /\ manifest.exists
                 /\ \A st \in StageSet : meta.stages[st].run \in {0, i}
                 /\ \A n \in DOMAIN meta.errors : meta.errors[n] = i
                 /\ meta.total_in = RowsInTo(NumStages)
                 /\ meta.total_out = RowsOutTo(NumStages)

\* C11: when a stage of a run has completed, the derived table of its
\* engine holds the output the engine computed in that run, also when that
\* output is empty; it never still holds the output of an earlier run.  A
\* table that is absent counts as one that holds the empty output.
C11_TableHoldsThisRunsOutput ==
    [][ \A j \in 2..NumStages :
          last'.op = Stages[j]
            => derived'[TableOf(Stages[j])].src
                 = Engine(Stages[j], snapshot, derived).out ]_vars

\* C12: the processed-hash set is append-only except for reset: a step
\* either keeps every hash, or is a reset that leaves the set empty; and the
\* tracker file, once written, holds exactly the in-memory set.
C12_LedgerAppendOnlyAndPersisted ==
    /\ [](tracker_file.hashes = processed_hashes)
    /\ [][ \/ processed_hashes \subseteq processed_hashes'
           \/ last'.op = "reset" /\ processed_hashes' = {}
                                 /\ tracker_file' = save({}) ]_vars

\* C12 witness: after a reset, a scan has just recorded a hash and saved
\* the tracker file
C12_Witness ==
    /\ quota.resets = 0
    /\ last.op = "scan" /\ last.read # {}
    /\ processed_hashes # {}
    /\ tracker_file = save(processed_hashes)

\* C13: after a reset the processed directory and the uploads directory
\* hold no file, the ledger is empty, and the manual directory holds
\* exactly the files it held before.
C13_ResetClearsAllButManual ==
    [][ last'.op = "reset"
          => /\ InDir(files', "uploads") = {} /\ archives' = {}
             /\ \A k \in KindSet : snapshot'[k] = EmptyBag
             /\ \A t \in Tables : ~ derived'[t].exists
             /\ ~ manifest'.exists
             /\ processed_hashes' = {}
             /\ InDir(files', "manual") = InDir(files, "manual") ]_vars

\* C13 witness: a reset has just run on a ledger that held hashes, and it
\* left files in the manual directory
C13_Witness ==
    /\ last.op = "reset" /\ last.known # {}
    /\ InDir(files, "manual") # {}

\* the statuses that end a run, and the steps that start and end one
TerminalStatus == {"completed", "completed_with_errors", "failed"}

StartOps == {"trigger_pipeline", "pipeline_watcher", "background_run"}

EndOps == {"run_end", "trigger_return"}

C15_NoTwoConvertedFilesShareAHash ==
    LET fs1 == Extract(files, archives)
        Distinct(F) == \A f, g \in F : f.hash = g.hash => f = g
    IN  /\ \A rep \in Reps(fs1) :
              /\ Distinct(rep)
              /\ \A k \in KindSet : Distinct(ByKind(rep, k))
        /\ \A repM \in Reps(InDir(fs1, "manual")),
              repU \in Reps(InDir(fs1, "uploads")) :
              LET new == UniqueNewFiles(repM, repU, processed_hashes)
              IN  /\ Distinct(new)
                  /\ \A k \in KindSet : Distinct(FilesToConvert(new, k))

\* C15 witness: two files of the same content are present and a scan or a
\* discovery has just converted that content
C15_Witness ==
    /\ last.op \in {"scan", "data_ingestion"}
    /\ \E f, g \in files : /\ f # g /\ f.hash = g.hash
                           /\ f.hash \in last.read

\* C16: classify_csv_by_content returns the kind with the highest match
\* count; when two or more kinds share the highest count the fallback
\* heuristic (age-band column names, then 'demo' / 'bio') decides; and it
\* raises DataClassificationError when no keyword matches at all.
C16_HighestCountWinsTiesByFallback ==
    last.op = "classify_csv_by_content" =>
        LET columns == {lower(c) : c \in last.read}
            sc == scores(columns)
            best == {k \in KindSet : sc[k] = max_score(sc)}
        IN  IF max_score(sc) = 0 THEN last.resp = "DataClassificationError"
            ELSE IF Cardinality(best) = 1 THEN last.resp \in best
            ELSE last.resp = Fallback(columns)

\* C17: no engine raises when an input snapshot is missing: when a snapshot
\* does not exist and the snapshots that exist have their columns, a run
\* that is at an engine stage does not raise in that stage.
C17_NoEngineRaisesOnMissingSnapshot ==
    [][ \A i \in DOMAIN runs :
          ( /\ runs[i].outcome = "running"
            /\ runs[i].pc \in 2..NumStages
            /\ runs'[i].outcome = "raised"
            /\ \E k \in KindSet : snapshot[k] = EmptyBag )
          => \/ NoGeoColumns(snapshot["demographic"])
             \/ NoGeoColumns(snapshot["biometric"]) ]_vars

\* the number of consecutive flagged days of the series that day i is part of
FlaggedRun(rows, i) ==
    IF ~ rows[i].is_anomaly THEN 0
    ELSE LET lo == CHOOSE a \in 1..i :
                     /\ \A j \in a..i : rows[j].is_anomaly
                     /\ a = 1 \/ ~ rows[a - 1].is_anomaly
             hi == CHOOSE b \in i..Len(rows) :
                     /\ \A j \in i..b : rows[j].is_anomaly
                     /\ b = Len(rows) \/ ~ rows[b + 1].is_anomaly
         IN  hi - lo + 1

\* C18: in the output of detect_anomalies a row that is part of more than 3
\* consecutive flagged days of its GeoKey is STRUCTURAL; otherwise it is
\* SPIKE when z > 3.0, DROP when z < -3.0 and TRANSIENT in the other cases.
C18_TypeFollowsFlaggedRunLength ==
    last.op = "detect_anomalies" =>
        \A i \in DOMAIN last.resp :
            last.resp[i].anomaly_type =
                IF FlaggedRun(last.resp, i) > 3 THEN "STRUCTURAL"
                ELSE IF last.resp[i].z_score > z_threshold_high THEN "SPIKE"
                ELSE IF last.resp[i].z_score < -z_threshold_high THEN "DROP"
                ELSE "TRANSIENT"

\* C19: in calculate_organic_signal, when the age-banded columns of the
\* record kind are absent, the organic signal of a row is the sum of all
\* its numeric columns multiplied by the adult weight of the kind: 1.0 for
\* demographic records, 0.3 for biometric records.
C19_FallbackUsesAdultWeight ==
    last.op = "calculate_organic_signal" =>
        LET row == last.read
            bands == IF last.known = "demographic"
                     THEN {"demo_age_5_17", "demo_age_17_"}
                     ELSE {"bio_age_5_17", "bio_age_17_"}
            adult == IF last.known = "demographic"
                     THEN SIGNAL_WEIGHTS.demographic_adult
                     ELSE SIGNAL_WEIGHTS.biometric_adult
        IN  ~ (bands \subseteq DOMAIN row)
              => last.resp
                   = sum_horizontal(row, {c \in DOMAIN row : IsNumeric(c)}) * adult

\* C20: for every (slope, variance, acceleration) classify_trend returns the
\* first match of: variance > 10.0 volatile; slope > 2.0 and variance < 2.0
\* persistent_inflow; slope > 1.0 and acceleration > 0.5 emerging_inflow;
\* slope < -0.5 reversal; |slope| < 0.5 and variance < 2.0 stable;
\* slope > 0.5 emerging_inflow; otherwise stable.  Volatile precedes every
\* other category whenever the variance exceeds 10.0.
C20_ClassifyTrendFirstMatch ==
    last.op = "classify_trend" =>
        LET s == last.read.slope
            v == last.read.variance
            a == last.read.acceleration
            rules == << <<v > 20, "volatile">>,
                        <<s > 4 /\ v < 4, "persistent_inflow">>,
                        <<s > 2 /\ a > 1, "emerging_inflow">>,
                        <<s < -1, "reversal">>,
                        <<s > -1 /\ s < 1 /\ v < 4, "stable">>,
                        <<s > 1, "emerging_inflow">>,
                        <<TRUE, "stable">> >>
            first == CHOOSE i \in DOMAIN rules :
                       rules[i][1] /\ \A j \in 1..(i - 1) : ~ rules[j][1]
        IN  /\ last.resp = rules[first][2]
            /\ v > 20 => last.resp = "volatile"

\* C20 witness: variance = 15 with slope = 3 has been classified volatile
C20_Witness ==
    /\ last.op = "classify_trend"
    /\ last.read.variance = 30 /\ last.read.slope = 6
    /\ last.resp = "volatile"

\* the severity order of the zones
ZoneRank(zone) ==
    CASE zone = "stable" -> 0
      [] zone = "moderate_inflow" -> 1
      [] zone = "elevated_inflow" -> 2
      [] zone = "high_inflow" -> 3

\* C21: classify_zone is monotonic non-decreasing in severity as the MVI
\* value increases, with closed-left boundaries at 5, 15 and 30: below 5 is
\* stable, 5 is moderate_inflow, below 15 is moderate_inflow, 15 is
\* elevated_inflow, 30 or more is high_inflow.
C21_ZoneMonotonicClosedLeft ==
    last.op = "classify_zone" =>
        LET v == last.read IN
        /\ \A w \in MviValues :
              w <= v => ZoneRank(classify_zone(w)) <= ZoneRank(last.resp)
        /\ last.resp = IF v < 10 THEN "stable"
                       ELSE IF v < 30 THEN "moderate_inflow"
                       ELSE IF v < 60 THEN "elevated_inflow"
                       ELSE "high_inflow"

\* C21 witness: the value 5 has been classified moderate_inflow
C21_Witness ==
    /\ last.op = "classify_zone" /\ last.read = 10
    /\ last.resp = "moderate_inflow"

\* the order of the severities
SeverityRank(severity) ==
    CASE severity = "NORMAL" -> 0
      [] severity = "LOW" -> 1
      [] severity = "MEDIUM" -> 2
      [] severity = "HIGH" -> 3
      [] severity = "CRITICAL" -> 4

C23_HighInflowOverridesTrend ==
    last.op = "get_policy_for_zone" =>
        IF last.read = "high_inflow"
        THEN /\ last.resp.priority = "CRITICAL"
             /\ last.resp.action_type = "emergency"
        ELSE last.known \in DOMAIN POLICY_MAPPINGS
               => last.resp = POLICY_MAPPINGS[last.known]

\* C23 witness: high_inflow with a trend type of the table and with an
\* unknown one has been mapped to the emergency policy
C23_Witness ==
    /\ last.op = "get_policy_for_zone"
    /\ last.read = "high_inflow"
    /\ last.known \in {"stable", "unknown_trend"}
    /\ last.resp.priority = "CRITICAL"

\* C24: calculate_mvi never stores the result of a division by zero: a
\* GeoKey without population_base gets the median population (10,000 when
\* no population is known or the median is 0), a GeoKey whose
\* population_base is 0 gets mvi = 0, every mvi of the output is finite, and
\* population_base = 200,000 with organic_signal = 6,000 gives mvi = 30,
\* zone_type high_inflow and confidence high.
C24_NoDivisionByZeroStored ==
    last.op = "calculate_mvi" =>
        \A i \in DOMAIN last.resp :
            LET given == last.read[i]
                row == last.resp[i]
                known == {j \in DOMAIN last.read : last.read[j].population_base # {}}
            IN  /\ given.population_base = {}
                     => /\ row.population_base > 0
                        /\ (known = {} \/ median(last.read) = {0})
                             => row.population_base = 10000
                        /\ (known # {} /\ median(last.read) # {0})
                             => {row.population_base} = median(last.read)
                /\ given.population_base = {0} => row.mvi = 0
                /\ row.mvi \in Nat
                /\ (given.population_base = {200000} /\ given.organic_signal = 6000)
                     => /\ row.mvi = 60
                        /\ row.zone_type = "high_inflow"
                        /\ row.confidence = "high"

\* C24 witness: a frame with a GeoKey of population 0 and a positive signal
\* and a GeoKey without population has been computed
C24_Witness ==
    /\ last.op = "calculate_mvi"
    /\ \E i, j \in DOMAIN last.resp :
          /\ last.read[i].population_base = {0}
          /\ last.read[i].organic_signal > 0
          /\ last.resp[i].mvi = 0
          /\ last.read[j].population_base = {}
          /\ last.resp[j].population_base = 10000

\* the place of a model in available_models
IndexOf(model) == CHOOSE i \in DOMAIN available_models : available_models[i] = model

\* C25: generate_content always terminates; on a recoverable error it falls
\* back to the next model in list order, tries each model at most once per
\* call and never returns to one that failed; it raises AIServiceError once
\* no model is left and re-raises another error at once; model_index never
\* decreases unless refresh_key resets it.
C25_ModelRotationTerminates ==
    /\ [](\A i, j \in DOMAIN insight_engine.tried :
             i < j => IndexOf(insight_engine.tried[i])
                        < IndexOf(insight_engine.tried[j]))
    /\ [][ /\ insight_engine'.model_index < insight_engine.model_index
                => last'.op = "refresh_key"
           /\ (last'.op = "attempt" /\ last'.known = "other")
                => /\ insight_engine'.outcome = "error"
                   /\ insight_engine'.pc = "idle"
                   /\ insight_engine'.model_index = insight_engine.model_index
           /\ (last'.op = "attempt" /\ last'.known = "recoverable")
                => IF insight_engine'.model_index < NumModels
                   THEN /\ insight_engine'.pc = "loop"
                        /\ insight_engine'.model
                             = available_models[insight_engine'.model_index + 1]
                        /\ insight_engine'.model # insight_engine.model
                   ELSE /\ insight_engine'.pc = "idle"
                        /\ insight_engine'.outcome = "AIServiceError"
         ]_vars
    /\ (insight_engine.pc = "loop") ~> (insight_engine.pc = "idle")

\* C25 witness: a call has tried every model in turn and raised
\* AIServiceError
C25_Witness ==
    /\ insight_engine.pc = "idle"
    /\ insight_engine.outcome = "AIServiceError"
    /\ insight_engine.tried = available_models

\* every run so far was started by pipeline_watcher and has ended, and no
\* upload, fetch or reset has been made since the process started
OnlyWatcherRan ==
    /\ quota.uploads = RerunUploads
    /\ quota.resets = RerunResets
    /\ Active = {}
    /\ \A i \in DOMAIN runs : runs[i].origin = "watcher"

\* C26: if no further file arrives, pipeline_watcher stops triggering runs:
\* once it has run the pipeline and run it again at the following poll, with
\* no file arriving, the poll after that finds neither new data nor
\* incomplete analytics with raw data present.
C26_WatcherStopsTriggering ==
    (OnlyWatcherRan /\ Len(runs) >= 2) => ~ WatcherTriggers

TriggerRuns == {i \in Active : runs[i].origin = "trigger"}

\* C28: whenever trigger_pipeline returns or raises, _pipeline_running is
\* false again: the flag is set exactly while an execution started by
\* trigger_pipeline is in progress, the step in which such an execution
\* returns or raises clears it, and a trigger is answered already_running
\* only while such an execution is in progress.
C28_FlagClearedWhenTriggerEnds ==
    /\ [](pipeline_running <=> TriggerRuns # {})
    /\ [][ /\ last'.op = "trigger_return" => ~ pipeline_running'
           /\ (last'.op = "trigger_pipeline" /\ last'.resp = "already_running")
                => TriggerRuns # {}
           /\ (last'.op = "trigger_pipeline" /\ last'.resp = "started")
                => (TriggerRuns = {} /\ pipeline_running')
         ]_vars

\* C28 witness: a triggered execution raised, the flag is clear, and the
\* trigger made after it was accepted and has returned in its turn
C28_Witness ==
    /\ Len(runs) = 2
    /\ runs[1].origin = "trigger" /\ runs[1].outcome = "raised"
    /\ runs[2].origin = "trigger"
    /\ last.op = "trigger_return" /\ last.run = 2
    /\ ~ pipeline_running

\* the sum of rows_in and of rows_out over the first j stage records of a
\* manifest
RECURSIVE SumRowsIn(_, _)
SumRowsIn(meta, j) ==
    IF j = 0 THEN 0 ELSE SumRowsIn(meta, j - 1) + meta.stages[Stages[j]].rows_in

RECURSIVE SumRowsOut(_, _)
SumRowsOut(meta, j) ==
    IF j = 0 THEN 0 ELSE SumRowsOut(meta, j - 1) + meta.stages[Stages[j]].rows_out

\* C29: in every manifest persisted by complete_pipeline,
\* summary.total_rows_processed is the sum of rows_in over the manifest's
\* stage records and summary.total_rows_output is the sum of their
\* rows_out, after any number of runs in the same process.
C29_SummaryTotalsAreStageSums ==
    manifest.exists
      => /\ manifest.meta.total_in = SumRowsIn(manifest.meta, NumStages)
         /\ manifest.meta.total_out = SumRowsOut(manifest.meta, NumStages)

\* C30: when organize_uploaded_file reports failure, it leaves the data
\* directories as they were before the call: no target file has been added
\* to the manual or uploads directory and a file of the same name that was
\* there has not been removed.
C30_FailedUploadLeavesDirectories ==
    [][ (last'.op = "upload" /\ last'.resp # "success")
          => (files' = files /\ archives' = archives) ]_vars
====
